---- MODULE Spec2Model ----
(***************************************************************************)
(* The multi-step command orchestrator of assistant/command_processor.py:  *)
(* Command, CommandSequence and CommandProcessor, as a state machine whose *)
(* actions are the public methods of CommandProcessor.                     *)
(*                                                                         *)
(* Sequence objects are shared by reference between active_sequence,       *)
(* sequence_queue and command_history, so the objects live in `seqs` and   *)
(* the three containers hold their identities (positions in `seqs`).       *)
(* Callers build a fresh CommandSequence for every queue_sequence call     *)
(* (main.py:648-655 and every test), so a sequence is enqueued once.       *)
(***************************************************************************)
EXTENDS Integers, Sequences, FiniteSets, TLC

VARIABLES seqs, active_sequence, sequence_queue, awaiting_confirmation,
          command_history, activation_order, ret, threads, input_text, out

vars == <<seqs, active_sequence, sequence_queue, awaiting_confirmation,
          command_history, activation_order, ret, threads, input_text, out>>

----------------------------------------------------------------------------
(* Bounds of the model *)

\* sequences created over a run
MaxSeqs == 3

\* commands of one sequence
MaxCmds == 2

\* commands of all the sequences created over a run
MaxTotalCmds == 3

\* sequences created over a run of two threads
MaxThreadSeqs == 2

\* pieces an utterance handed to extract_steps_from_text is made of
MaxPieces == 4

\* pieces a reply handed to is_confirmation is made of
MaxReplyPieces == 3

\* steps of a multi-step utterance
MaxSteps == 3

\* multi-step utterances over a run of the caller protocol
MaxUtterances == 2

----------------------------------------------------------------------------
(* Values *)

\* Python's None, for object references (sequence identities start at 1)
None == 0

\* Python's None, for the string-valued fields intent, result and error
NoValue == "None"

\* CommandState
PENDING == "pending"
IN_PROGRESS == "in_progress"
AWAITING_CONFIRMATION == "awaiting_confirmation"
COMPLETED == "completed"
FAILED == "failed"
CANCELLED == "cancelled"

\* the intents that have a handler: the registrations of main.py
command_handlers ==
    {"browser", "spotify", "whatsapp", "system", "timer", "weather", "general"}

\* A command text is the sequence of its (lower-cased) words; `kw in text`
\* is the presence of the keyword among them.
HasWord(text, kw) == \E i \in 1..Len(text) : text[i] = kw

\* the (text, intent) pairs commands are built from: a text without intent,
\* resolved by keyword to a handled intent, and a preset intent that has no
\* handler (test_error_recovery)
CommandInputs ==
    { [text |-> <<"play", "jazz">>, intent |-> NoValue],
      [text |-> <<"cause", "error">>, intent |-> "nonexistent"] }

\* what a handler call can do: return a (response, result) pair, raise an
\* Exception, or return a value that does not unpack into two names
HandlerOutcomes == {"returns", "raises", "bad_shape"}

----------------------------------------------------------------------------
(* Command *)

\* Command.__init__
NewCommand(text, intent) ==
    [text |-> text, intent |-> intent, state |-> PENDING,
     result |-> NoValue, completed_at |-> FALSE, error |-> NoValue]

(* CommandSequence *)

\* CommandSequence.__init__ followed by add_command for each input
NewSequence(inputs) ==
    [commands |-> [i \in 1..Len(inputs) |->
                        NewCommand(inputs[i].text, inputs[i].intent)],
     current_index |-> -1, state |-> PENDING, completed_at |-> FALSE]

\* the command at 0-based index i
CommandAt(s, i) == s.commands[i + 1]

\* get_current_command that counts the cursor from the last command
get_current_command_from_end(s) ==
    IF 0 <= s.current_index /\ s.current_index < Len(s.commands)
    THEN Len(s.commands) - 1 - s.current_index ELSE -1

\* get_current_command: the index of the current command, or -1 for None
get_current_command(s) ==
    IF 0 <= s.current_index /\ s.current_index < Len(s.commands)
    THEN s.current_index ELSE -1

\* get_next_command: the index of the next command, or -1 for None
get_next_command(s) ==
    IF s.current_index + 1 < Len(s.commands)
    THEN s.current_index + 1 ELSE -1

\* advance that rewinds the cursor when it runs off the end
advance_rewinding(s) ==
    IF s.current_index + 1 < Len(s.commands)
    THEN [s |-> [s EXCEPT !.current_index = s.current_index + 1,
                          !.commands[s.current_index + 2].state = IN_PROGRESS],
          cmd |-> s.current_index + 1]
    ELSE [s |-> [s EXCEPT !.state = COMPLETED, !.completed_at = TRUE,
                          !.current_index = -1],
          cmd |-> -1]

\* advance that leaves a Failed sequence Failed when it runs off the end
advance_keeping_failed(s) ==
    IF s.current_index + 1 < Len(s.commands)
    THEN [s |-> [s EXCEPT !.current_index = s.current_index + 1,
                          !.commands[s.current_index + 2].state = IN_PROGRESS],
          cmd |-> s.current_index + 1]
    ELSE [s |-> [s EXCEPT !.state = IF s.state = FAILED
                                     THEN FAILED ELSE COMPLETED,
                          !.completed_at = TRUE],
          cmd |-> -1]

\* advance that starts the next command without moving the cursor to it
advance_in_place(s) ==
    IF s.current_index + 1 < Len(s.commands)
    THEN [s |-> [s EXCEPT !.commands[s.current_index + 2].state = IN_PROGRESS],
          cmd |-> s.current_index + 1]
    ELSE [s |-> [s EXCEPT !.state = COMPLETED, !.completed_at = TRUE],
          cmd |-> -1]

\* advance: the sequence afterwards and the index returned (-1 for None)
advance(s) ==
    IF s.current_index + 1 < Len(s.commands)
    THEN [s |-> [s EXCEPT !.current_index = s.current_index + 1,
                          !.commands[s.current_index + 2].state = IN_PROGRESS],
          cmd |-> s.current_index + 1]
    ELSE [s |-> [s EXCEPT !.state = COMPLETED, !.completed_at = TRUE],
          cmd |-> -1]

\* mark_current_complete that also completes the sequence when the command is
\* its last
mark_current_complete_closing(s, result) ==
    IF 0 <= s.current_index /\ s.current_index < Len(s.commands)
    THEN [s EXCEPT !.commands[s.current_index + 1].state = COMPLETED,
                   !.commands[s.current_index + 1].result = result,
                   !.commands[s.current_index + 1].completed_at = TRUE,
                   !.state = IF s.current_index + 1 = Len(s.commands)
                             THEN COMPLETED ELSE @]
    ELSE s

\* mark_current_complete
mark_current_complete(s, result) ==
    IF 0 <= s.current_index /\ s.current_index < Len(s.commands)
    THEN [s EXCEPT !.commands[s.current_index + 1].state = COMPLETED,
                   !.commands[s.current_index + 1].result = result,
                   !.commands[s.current_index + 1].completed_at = TRUE]
    ELSE s

\* mark_current_failed that leaves the sequence's own state alone
mark_current_failed_command_only(s, error) ==
    IF 0 <= s.current_index /\ s.current_index < Len(s.commands)
    THEN [s EXCEPT !.commands[s.current_index + 1].state = FAILED,
                   !.commands[s.current_index + 1].error = error]
    ELSE s

\* mark_current_failed
mark_current_failed(s, error) ==
    IF 0 <= s.current_index /\ s.current_index < Len(s.commands)
    THEN [s EXCEPT !.commands[s.current_index + 1].state = FAILED,
                   !.commands[s.current_index + 1].error = error,
                   !.state = FAILED]
    ELSE s

----------------------------------------------------------------------------
(* CommandProcessor: each method is an operator from the processor's       *)
(* fields p to the fields afterwards and the value returned.               *)

\* the processor's fields, as a record
Fields ==
    [seqs |-> seqs, active_sequence |-> active_sequence,
     sequence_queue |-> sequence_queue,
     awaiting_confirmation |-> awaiting_confirmation,
     command_history |-> command_history,
     activation_order |-> activation_order]

\* The value the last call returned, with the call: op and arg name the
\* method and its argument (for process_current_command, what the handler
\* did), ok is the success flag (for process_current_command, whether the
\* handler returned normally), cmd the command returned or concerned
\* (sequence, 0-based index), dispatched the command handed to a handler,
\* gated the value of awaiting_confirmation when the call was made, raised
\* whether the call ended in an exception reaching its caller.
\* Fields a method does not return keep the values below.
NoReturn ==
    [op |-> "init", arg |-> "", gated |-> FALSE, ok |-> FALSE, msg |-> "",
     cmd |-> <<None, -1>>,
     result |-> NoValue, dispatched |-> <<None, -1>>,
     step_number |-> 0, total_steps |-> 0, raised |-> FALSE]

\* _process_next_from_queue that retires a head without commands instead of
\* leaving it active
process_next_from_queue_retiring_empty(p) ==
    IF p.sequence_queue = <<>>
    THEN [p |-> p, ok |-> FALSE]
    ELSE LET id == Head(p.sequence_queue)
             adv == advance([p.seqs[id] EXCEPT !.state = IN_PROGRESS])
         IN  IF adv.cmd = -1
             THEN [p |-> [p EXCEPT !.sequence_queue = Tail(p.sequence_queue),
                                   !.seqs[id] = adv.s,
                                   !.command_history =
                                       Append(p.command_history, id),
                                   !.activation_order =
                                       Append(p.activation_order, id)],
                   ok |-> FALSE]
             ELSE [p |-> [p EXCEPT !.active_sequence = id,
                                   !.sequence_queue = Tail(p.sequence_queue),
                                   !.seqs[id] = adv.s,
                                   !.activation_order =
                                       Append(p.activation_order, id)],
                   ok |-> TRUE]

\* _process_next_from_queue that takes the newest sequence (pop, not popleft)
process_next_from_queue_newest(p) ==
    IF p.sequence_queue = <<>>
    THEN [p |-> p, ok |-> FALSE]
    ELSE LET n == Len(p.sequence_queue)
             id == p.sequence_queue[n]
             adv == advance([p.seqs[id] EXCEPT !.state = IN_PROGRESS])
         IN  [p |-> [p EXCEPT !.active_sequence = id,
                              !.sequence_queue = SubSeq(p.sequence_queue, 1, n - 1),
                              !.seqs[id] = adv.s,
                              !.activation_order = Append(p.activation_order, id)],
              ok |-> adv.cmd # -1]

\* _process_next_from_queue
process_next_from_queue(p) ==
    IF p.sequence_queue = <<>>
    THEN [p |-> p, ok |-> FALSE]
    ELSE LET id == Head(p.sequence_queue)
             adv == advance([p.seqs[id] EXCEPT !.state = IN_PROGRESS])
         IN  [p |-> [p EXCEPT !.active_sequence = id,
                              !.sequence_queue = Tail(p.sequence_queue),
                              !.seqs[id] = adv.s,
                              !.activation_order = Append(p.activation_order, id)],
              ok |-> adv.cmd # -1]

\* queue_sequence that starts the queue whether or not a sequence is active
queue_sequence_always_starts(p, sequence) ==
    LET id == Len(p.seqs) + 1
        q == [p EXCEPT !.seqs = Append(p.seqs, sequence),
                       !.sequence_queue = Append(p.sequence_queue, id)]
    IN  [p |-> process_next_from_queue(q).p,
         ret |-> [NoReturn EXCEPT !.op = "queue_sequence", !.cmd = <<id, -1>>,
                                  !.gated = p.awaiting_confirmation]]

\* queue_sequence that appends and leaves starting the queue to a later call
queue_sequence_append_only(p, sequence) ==
    LET id == Len(p.seqs) + 1
        q == [p EXCEPT !.seqs = Append(p.seqs, sequence),
                       !.sequence_queue = Append(p.sequence_queue, id)]
    IN  [p |-> q,
         ret |-> [NoReturn EXCEPT !.op = "queue_sequence", !.cmd = <<id, -1>>,
                                  !.gated = p.awaiting_confirmation]]

\* queue_sequence, for a sequence object the caller has just built
queue_sequence(p, sequence) ==
    LET id == Len(p.seqs) + 1
        q == [p EXCEPT !.seqs = Append(p.seqs, sequence),
                       !.sequence_queue = Append(p.sequence_queue, id)]
    IN  [p |-> IF q.active_sequence = None
               THEN process_next_from_queue(q).p ELSE q,
         ret |-> [NoReturn EXCEPT !.op = "queue_sequence", !.cmd = <<id, -1>>,
                                  !.gated = p.awaiting_confirmation]]

\* the keyword fallback of process_current_command: the intent the command
\* is dispatched under
ResolveIntent(c) ==
    IF c.intent \in {NoValue, ""} /\ c.text # <<>>
    THEN IF HasWord(c.text, "spotify") \/ HasWord(c.text, "play")
              \/ HasWord(c.text, "music") THEN "spotify"
         ELSE IF HasWord(c.text, "browser") \/ HasWord(c.text, "web")
                   \/ HasWord(c.text, "search") THEN "browser"
         ELSE IF HasWord(c.text, "whatsapp") \/ HasWord(c.text, "message")
                   \/ HasWord(c.text, "send") THEN "whatsapp"
         ELSE "general"
    ELSE c.intent

\* process_current_command, the handler (if one is called) doing `outcome`
process_current_command(p, outcome) ==
    LET r == [NoReturn EXCEPT !.op = "process_current_command",
                              !.gated = p.awaiting_confirmation]
        id == p.active_sequence
    IN
    IF id = None
    THEN [p |-> p, ret |-> [r EXCEPT !.msg = "No active command sequence."]]
    ELSE
    LET cur == get_current_command(p.seqs[id]) IN
    IF cur = -1
    THEN [p |-> p, ret |-> [r EXCEPT !.msg = "No current command to process."]]
    ELSE
    LET intent == ResolveIntent(CommandAt(p.seqs[id], cur))
        s == [p.seqs[id] EXCEPT !.commands[cur + 1].intent = intent]
        rc == [r EXCEPT !.cmd = <<id, cur>>]
    IN
    IF intent \notin command_handlers
    THEN [p |-> [p EXCEPT !.seqs[id] =
                    mark_current_failed(s, "No handler found for intent")],
          ret |-> [rc EXCEPT !.msg = "I don't know how to process"]]
    ELSE IF outcome = "returns"
    THEN [p |-> [p EXCEPT !.seqs[id] =
                    mark_current_complete(s, "handler result")],
          ret |-> [rc EXCEPT !.msg = "handler response", !.ok = TRUE,
                             !.result = "handler result",
                             !.arg = outcome, !.dispatched = <<id, cur>>]]
    ELSE \* the handler raised, or the unpacking of its value did: the
         \* message is "Error processing command: " and the exception's text
         LET error_msg == "Error processing command"
         IN  [p |-> [p EXCEPT !.seqs[id] = mark_current_failed(s, error_msg)],
              ret |-> [rc EXCEPT !.msg = error_msg,
                                 !.arg = outcome, !.dispatched = <<id, cur>>]]

\* advance_sequence that retires a finished sequence without starting the
\* sequence waiting in the queue
advance_sequence_queue_left(p) ==
    LET r == [NoReturn EXCEPT !.op = "advance_sequence",
                              !.gated = p.awaiting_confirmation]
        id == p.active_sequence
    IN
    IF id = None
    THEN [p |-> p, ret |-> [r EXCEPT !.msg = "No active command sequence."]]
    ELSE
    LET p1 == IF p.awaiting_confirmation
              THEN [p EXCEPT !.awaiting_confirmation = FALSE] ELSE p
        adv == advance(p1.seqs[id])
    IN
    IF adv.cmd # -1
    THEN [p |-> [p1 EXCEPT !.seqs[id] = adv.s],
          ret |-> [r EXCEPT !.ok = TRUE, !.cmd = <<id, adv.cmd>>,
                            !.msg = "Moving to next step"]]
    ELSE
    LET p2 == [p1 EXCEPT !.seqs[id] = adv.s,
                         !.command_history = Append(p1.command_history, id),
                         !.active_sequence = None]
        nx == [p |-> p2, ok |-> FALSE]
    IN
    IF nx.ok
    THEN [p |-> nx.p,
          ret |-> [r EXCEPT !.ok = TRUE,
                            !.cmd = <<nx.p.active_sequence,
                                      get_current_command(
                                          nx.p.seqs[nx.p.active_sequence])>>,
                            !.msg = "Started next command sequence."]]
    ELSE [p |-> nx.p,
          ret |-> [r EXCEPT !.ok = TRUE, !.msg = "Command sequence completed."]]

\* advance_sequence that retires a finished sequence to history without
\* clearing active_sequence
advance_sequence_active_left(p) ==
    LET r == [NoReturn EXCEPT !.op = "advance_sequence",
                              !.gated = p.awaiting_confirmation]
        id == p.active_sequence
    IN
    IF id = None
    THEN [p |-> p, ret |-> [r EXCEPT !.msg = "No active command sequence."]]
    ELSE
    LET p1 == IF p.awaiting_confirmation
              THEN [p EXCEPT !.awaiting_confirmation = FALSE] ELSE p
        adv == advance(p1.seqs[id])
    IN
    IF adv.cmd # -1
    THEN [p |-> [p1 EXCEPT !.seqs[id] = adv.s],
          ret |-> [r EXCEPT !.ok = TRUE, !.cmd = <<id, adv.cmd>>,
                            !.msg = "Moving to next step"]]
    ELSE
    LET p2 == [p1 EXCEPT !.seqs[id] = adv.s,
                         !.command_history = Append(p1.command_history, id)]
        nx == process_next_from_queue(p2)
    IN
    IF nx.ok
    THEN [p |-> nx.p,
          ret |-> [r EXCEPT !.ok = TRUE,
                            !.cmd = <<nx.p.active_sequence,
                                      get_current_command(
                                          nx.p.seqs[nx.p.active_sequence])>>,
                            !.msg = "Started next command sequence."]]
    ELSE [p |-> nx.p,
          ret |-> [r EXCEPT !.ok = TRUE, !.msg = "Command sequence completed."]]

\* advance_sequence
advance_sequence(p) ==
    LET r == [NoReturn EXCEPT !.op = "advance_sequence",
                              !.gated = p.awaiting_confirmation]
        id == p.active_sequence
    IN
    IF id = None
    THEN [p |-> p, ret |-> [r EXCEPT !.msg = "No active command sequence."]]
    ELSE
    LET p1 == IF p.awaiting_confirmation
              THEN [p EXCEPT !.awaiting_confirmation = FALSE] ELSE p
        adv == advance(p1.seqs[id])
    IN
    IF adv.cmd # -1
    THEN [p |-> [p1 EXCEPT !.seqs[id] = adv.s],
          ret |-> [r EXCEPT !.ok = TRUE, !.cmd = <<id, adv.cmd>>,
                            !.msg = "Moving to next step"]]
    ELSE
    LET p2 == [p1 EXCEPT !.seqs[id] = adv.s,
                         !.command_history = Append(p1.command_history, id),
                         !.active_sequence = None]
        nx == process_next_from_queue(p2)
    IN
    IF nx.ok
    THEN [p |-> nx.p,
          ret |-> [r EXCEPT !.ok = TRUE,
                            !.cmd = <<nx.p.active_sequence,
                                      get_current_command(
                                          nx.p.seqs[nx.p.active_sequence])>>,
                            !.msg = "Started next command sequence."]]
    ELSE [p |-> nx.p,
          ret |-> [r EXCEPT !.ok = TRUE, !.msg = "Command sequence completed."]]

\* handle_confirmation without its test of awaiting_confirmation
handle_confirmation_unguarded(p, confirmed) ==
    LET r == [NoReturn EXCEPT !.op = "handle_confirmation",
                              !.arg = IF confirmed THEN "True" ELSE "False",
                              !.gated = p.awaiting_confirmation]
        id == p.active_sequence
    IN
    IF FALSE
    THEN [p |-> p, ret |-> [r EXCEPT !.msg = "No confirmation was requested."]]
    ELSE IF ~confirmed /\ id # None
    THEN LET p1 == [p EXCEPT !.seqs[id].state = CANCELLED,
                             !.command_history = Append(p.command_history, id),
                             !.active_sequence = None,
                             !.awaiting_confirmation = FALSE]
             nx == process_next_from_queue(p1)
         IN  [p |-> nx.p,
              ret |-> [r EXCEPT !.ok = TRUE,
                         !.msg = IF nx.ok
                                 THEN "Command cancelled. Started next command sequence."
                                 ELSE "Command sequence cancelled."]]
    ELSE LET adv == advance_sequence([p EXCEPT !.awaiting_confirmation = FALSE])
         IN  [p |-> adv.p,
              ret |-> [r EXCEPT !.ok = adv.ret.ok, !.msg = adv.ret.msg]]

\* handle_confirmation whose rejection branch forgets to clear the gate
handle_confirmation_gate_left(p, confirmed) ==
    LET r == [NoReturn EXCEPT !.op = "handle_confirmation",
                              !.arg = IF confirmed THEN "True" ELSE "False",
                              !.gated = p.awaiting_confirmation]
        id == p.active_sequence
    IN
    IF ~p.awaiting_confirmation
    THEN [p |-> p, ret |-> [r EXCEPT !.msg = "No confirmation was requested."]]
    ELSE IF ~confirmed /\ id # None
    THEN LET p1 == [p EXCEPT !.seqs[id].state = CANCELLED,
                             !.command_history = Append(p.command_history, id),
                             !.active_sequence = None]
             nx == process_next_from_queue(p1)
         IN  [p |-> nx.p,
              ret |-> [r EXCEPT !.ok = TRUE,
                         !.msg = IF nx.ok
                                 THEN "Command cancelled. Started next command sequence."
                                 ELSE "Command sequence cancelled."]]
    ELSE LET adv == advance_sequence([p EXCEPT !.awaiting_confirmation = FALSE])
         IN  [p |-> adv.p,
              ret |-> [r EXCEPT !.ok = adv.ret.ok, !.msg = adv.ret.msg]]

\* handle_confirmation whose confirmed branch clears the gate and reports the
\* next step without calling advance_sequence
handle_confirmation_no_advance(p, confirmed) ==
    LET r == [NoReturn EXCEPT !.op = "handle_confirmation",
                              !.arg = IF confirmed THEN "True" ELSE "False",
                              !.gated = p.awaiting_confirmation]
        id == p.active_sequence
    IN
    IF ~p.awaiting_confirmation
    THEN [p |-> p, ret |-> [r EXCEPT !.msg = "No confirmation was requested."]]
    ELSE IF ~confirmed /\ id # None
    THEN LET p1 == [p EXCEPT !.seqs[id].state = CANCELLED,
                             !.command_history = Append(p.command_history, id),
                             !.active_sequence = None,
                             !.awaiting_confirmation = FALSE]
             nx == process_next_from_queue(p1)
         IN  [p |-> nx.p,
              ret |-> [r EXCEPT !.ok = TRUE,
                         !.msg = IF nx.ok
                                 THEN "Command cancelled. Started next command sequence."
                                 ELSE "Command sequence cancelled."]]
    ELSE [p |-> [p EXCEPT !.awaiting_confirmation = FALSE],
          ret |-> [r EXCEPT !.ok = TRUE, !.msg = "Moving to next step"]]


\* handle_confirmation
handle_confirmation(p, confirmed) ==
    LET r == [NoReturn EXCEPT !.op = "handle_confirmation",
                              !.arg = IF confirmed THEN "True" ELSE "False",
                              !.gated = p.awaiting_confirmation]
        id == p.active_sequence
    IN
    IF ~p.awaiting_confirmation
    THEN [p |-> p, ret |-> [r EXCEPT !.msg = "No confirmation was requested."]]
    ELSE IF ~confirmed /\ id # None
    THEN LET p1 == [p EXCEPT !.seqs[id].state = CANCELLED,
                             !.command_history = Append(p.command_history, id),
                             !.active_sequence = None,
                             !.awaiting_confirmation = FALSE]
             nx == process_next_from_queue(p1)
         IN  [p |-> nx.p,
              ret |-> [r EXCEPT !.ok = TRUE,
                         !.msg = IF nx.ok
                                 THEN "Command cancelled. Started next command sequence."
                                 ELSE "Command sequence cancelled."]]
    ELSE LET adv == advance_sequence([p EXCEPT !.awaiting_confirmation = FALSE])
         IN  [p |-> adv.p,
              ret |-> [r EXCEPT !.ok = adv.ret.ok, !.msg = adv.ret.msg]]

\* request_confirmation that numbers the next step from the cursor plus one
request_confirmation_off_by_one(p) ==
    LET r == [NoReturn EXCEPT !.op = "request_confirmation",
                              !.gated = p.awaiting_confirmation]
        id == p.active_sequence
    IN
    IF id = None
    THEN [p |-> p, ret |-> [r EXCEPT !.msg = "No active command sequence."]]
    ELSE
    LET next_command == get_next_command(p.seqs[id]) IN
    IF next_command = -1
    THEN [p |-> p, ret |-> [r EXCEPT !.msg = "No next step to confirm."]]
    ELSE [p |-> [p EXCEPT !.awaiting_confirmation = TRUE],
          ret |-> [r EXCEPT !.ok = TRUE, !.msg = "Should I proceed?",
                            !.cmd = <<id, next_command>>,
                            !.step_number = p.seqs[id].current_index + 1,
                            !.total_steps = Len(p.seqs[id].commands)]]

\* request_confirmation
request_confirmation(p) ==
    LET r == [NoReturn EXCEPT !.op = "request_confirmation",
                              !.gated = p.awaiting_confirmation]
        id == p.active_sequence
    IN
    IF id = None
    THEN [p |-> p, ret |-> [r EXCEPT !.msg = "No active command sequence."]]
    ELSE
    LET next_command == get_next_command(p.seqs[id]) IN
    IF next_command = -1
    THEN [p |-> p, ret |-> [r EXCEPT !.msg = "No next step to confirm."]]
    ELSE [p |-> [p EXCEPT !.awaiting_confirmation = TRUE],
          ret |-> [r EXCEPT !.ok = TRUE, !.msg = "Should I proceed?",
                            !.cmd = <<id, next_command>>,
                            !.step_number = p.seqs[id].current_index + 2,
                            !.total_steps = Len(p.seqs[id].commands)]]

\* cancel_all that forgets the queue
cancel_all_queue_left(p) ==
    LET id == p.active_sequence
        p1 == IF id # None
              THEN [p EXCEPT !.seqs[id].state = CANCELLED,
                             !.command_history = Append(p.command_history, id)]
              ELSE p
    IN  [p |-> [p1 EXCEPT !.active_sequence = None,
                          !.awaiting_confirmation = FALSE],
         ret |-> [NoReturn EXCEPT !.op = "cancel_all", !.ok = TRUE,
                                  !.gated = p.awaiting_confirmation,
                                  !.msg = "All command sequences cancelled."]]

\* cancel_all
cancel_all(p) ==
    LET id == p.active_sequence
        p1 == IF id # None
              THEN [p EXCEPT !.seqs[id].state = CANCELLED,
                             !.command_history = Append(p.command_history, id)]
              ELSE p
    IN  [p |-> [p1 EXCEPT !.active_sequence = None,
                          !.sequence_queue = <<>>,
                          !.awaiting_confirmation = FALSE],
         ret |-> [NoReturn EXCEPT !.op = "cancel_all", !.ok = TRUE,
                                  !.gated = p.awaiting_confirmation,
                                  !.msg = "All command sequences cancelled."]]

----------------------------------------------------------------------------
(* Utility functions: extract_steps_from_text and is_confirmation *)

\* A str is the sequence of its characters, each a one-character string.

\* the digits of the prefixes "1." to "9."
Digits == {"1", "2", "3", "4", "5", "6", "7", "8", "9"}

\* the characters str.strip() removes
Whitespace == {" ", "\n", "\t"}

Capitals == <<"A", "B", "C", "D", "E", "F", "G", "H", "I", "J", "K", "L", "M",
             "N", "O", "P", "Q", "R", "S", "T", "U", "V", "W", "X", "Y", "Z">>
Letters == <<"a", "b", "c", "d", "e", "f", "g", "h", "i", "j", "k", "l", "m",
            "n", "o", "p", "q", "r", "s", "t", "u", "v", "w", "x", "y", "z">>

\* str.lower(), one character
LowerChar(c) ==
    IF \E i \in 1 .. Len(Capitals) : Capitals[i] = c
    THEN Letters[CHOOSE i \in 1 .. Len(Capitals) : Capitals[i] = c]
    ELSE c

\* str.lower()
lower(s) == [i \in 1 .. Len(s) |-> LowerChar(s[i])]

\* str.lstrip() and str.rstrip()
RECURSIVE lstrip(_)
lstrip(s) ==
    IF s # <<>> /\ Head(s) \in Whitespace THEN lstrip(Tail(s)) ELSE s

RECURSIVE rstrip(_)
rstrip(s) ==
    IF s # <<>> /\ s[Len(s)] \in Whitespace
    THEN rstrip(SubSeq(s, 1, Len(s) - 1)) ELSE s

\* str.strip()
strip(s) == rstrip(lstrip(s))

\* whether sub occurs in s at position i
OccursAt(s, sub, i) ==
    /\ i + Len(sub) - 1 <= Len(s)
    /\ \A j \in 1 .. Len(sub) : s[i + j - 1] = sub[j]

\* sub in s
Contains(s, sub) == \E i \in 1 .. Len(s) : OccursAt(s, sub, i)

\* s.startswith(prefix)
startswith(s, prefix) == OccursAt(s, prefix, 1)

\* s.split(sep): the pieces between the occurrences of sep, found from the
\* left and not overlapping
RECURSIVE split(_, _)
split(s, sep) ==
    IF Contains(s, sep)
    THEN LET i == CHOOSE k \in 1 .. Len(s) :
                     /\ OccursAt(s, sep, k)
                     /\ \A m \in 1 .. k - 1 : ~OccursAt(s, sep, m)
         IN  <<SubSeq(s, 1, i - 1)>>
             \o split(SubSeq(s, i + Len(sep), Len(s)), sep)
    ELSE <<s>>

\* [x.strip() for x in parts if x.strip()]
RECURSIVE StrippedNonEmpty(_)
StrippedNonEmpty(parts) ==
    IF parts = <<>> THEN <<>>
    ELSE (IF strip(Head(parts)) # <<>> THEN <<strip(Head(parts))>> ELSE <<>>)
         \o StrippedNonEmpty(Tail(parts))

\* the loop over the lines: a line that starts with a prefix "i." gives the
\* step that follows the prefix, stripped
RECURSIVE NumberedSteps(_)
NumberedSteps(lines) ==
    IF lines = <<>> THEN <<>>
    ELSE LET line == Head(lines) IN
         (IF \E d \in Digits : startswith(line, <<d, ".">>)
          THEN <<strip(SubSeq(line, 3, Len(line)))>> ELSE <<>>)
         \o NumberedSteps(Tail(lines))

connectors ==
    <<<<" ", "a", "n", "d", " ">>,
      <<" ", "t", "h", "e", "n", " ">>,
      <<" ", "a", "f", "t", "e", "r", " ", "t", "h", "a", "t", " ">>,
      <<" ", "n", "e", "x", "t", " ">>,
      <<" ", "f", "i", "n", "a", "l", "l", "y", " ">>>>

\* the loop over the connectors from connectors[i] on: the first one found in
\* the lower-cased text splits the text itself
RECURSIVE ConnectorSteps(_, _)
ConnectorSteps(s, i) ==
    IF i > Len(connectors) THEN <<s>>
    ELSE IF Contains(lower(s), connectors[i])
         THEN StrippedNonEmpty(split(s, connectors[i]))
         ELSE ConnectorSteps(s, i + 1)

\* extract_steps_from_text
extract_steps_from_text(s) ==
    LET steps == IF \E d \in Digits : Contains(s, <<d, ".">>)
                 THEN NumberedSteps(StrippedNonEmpty(split(s, <<"\n">>)))
                 ELSE <<>>
    IN  IF steps # <<>> THEN steps ELSE ConnectorSteps(s, 1)

confirmation_terms ==
    {<<"y", "e", "s">>,
     <<"y", "e", "a", "h">>,
     <<"y", "e", "p">>,
     <<"s", "u", "r", "e">>,
     <<"o", "k">>,
     <<"o", "k", "a", "y">>,
     <<"p", "r", "o", "c", "e", "e", "d">>,
     <<"c", "o", "n", "t", "i", "n", "u", "e">>,
     <<"g", "o", " ", "a", "h", "e", "a", "d">>,
     <<"d", "o", " ", "i", "t">>,
     <<"c", "o", "n", "f", "i", "r", "m">>}

rejection_terms ==
    {<<"n", "o">>,
     <<"n", "o", "p", "e">>,
     <<"d", "o", "n", "'", "t">>,
     <<"s", "t", "o", "p">>,
     <<"c", "a", "n", "c", "e", "l">>,
     <<"w", "a", "i", "t">>,
     <<"h", "o", "l", "d", " ", "o", "n">>,
     <<"a", "b", "o", "r", "t">>}

\* is_confirmation that takes a rejection term to withdraw a confirmation
is_confirmation_rejection_wins(s) ==
    LET t == strip(lower(s)) IN
    [is_confirmation_response |->
         \E term \in confirmation_terms \cup rejection_terms : Contains(t, term),
     confirmed |-> /\ \E term \in confirmation_terms : Contains(t, term)
                   /\ ~\E term \in rejection_terms : Contains(t, term)]

\* is_confirmation
is_confirmation(s) ==
    LET t == strip(lower(s)) IN
    [is_confirmation_response |->
         \E term \in confirmation_terms \cup rejection_terms : Contains(t, term),
     confirmed |-> \E term \in confirmation_terms : Contains(t, term)]

----------------------------------------------------------------------------
(* Callers *)

\* the threads that call into the processor: the main loop (whose signal
\* handler calls cancel_all through cleanup) and the speech callback thread
Threads == {"main", "speech"}

\* a thread that is not inside a call of the processor; inside one, pc is
\* the point the thread has reached, id the sequence and idx the command it
\* holds in its local variables
NotCalling == [pc |-> "none", id |-> None, idx |-> -1]

\* the value out holds before a utility function has been applied to
\* input_text
NoOutput == [op |-> "none", steps |-> <<>>, is_confirmation_response |-> FALSE,
             confirmed |-> FALSE]

----------------------------------------------------------------------------
\* CommandProcessor.__init__, no thread calling yet
InitProcessor ==
    /\ seqs = <<>>
    /\ active_sequence = None
    /\ sequence_queue = <<>>
    /\ awaiting_confirmation = FALSE
    /\ command_history = <<>>
    /\ activation_order = <<>>
    /\ ret = NoReturn
    /\ threads = [t \in Threads |-> NotCalling]

Init ==
    /\ InitProcessor
    /\ input_text = <<>>
    /\ out = NoOutput

\* the lists of at most MaxCmds command inputs
InputLists == UNION { [1..n -> CommandInputs] : n \in 0..MaxCmds }

\* the number of commands of the sequences created so far
RECURSIVE TotalCmds(_)
TotalCmds(ss) ==
    IF ss = <<>> THEN 0 ELSE Len(Head(ss).commands) + TotalCmds(Tail(ss))

\* a caller builds a sequence and hands it to queue_sequence
QueueSequence ==
    /\ Len(seqs) < MaxSeqs
    /\ \E inputs \in InputLists :
          /\ TotalCmds(seqs) + Len(inputs) <= MaxTotalCmds
          /\ \E r \in {queue_sequence(Fields, NewSequence(inputs))} :
             /\ seqs' = r.p.seqs
             /\ active_sequence' = r.p.active_sequence
             /\ sequence_queue' = r.p.sequence_queue
             /\ awaiting_confirmation' = r.p.awaiting_confirmation
             /\ command_history' = r.p.command_history
             /\ activation_order' = r.p.activation_order
             /\ ret' = r.ret
             /\ UNCHANGED <<threads, input_text, out>>

ProcessCurrentCommand ==
    \E outcome \in HandlerOutcomes :
        \E r \in {process_current_command(Fields, outcome)} :
        /\ seqs' = r.p.seqs
        /\ active_sequence' = r.p.active_sequence
        /\ sequence_queue' = r.p.sequence_queue
        /\ awaiting_confirmation' = r.p.awaiting_confirmation
        /\ command_history' = r.p.command_history
        /\ activation_order' = r.p.activation_order
        /\ ret' = r.ret
        /\ UNCHANGED <<threads, input_text, out>>

AdvanceSequence ==
    \E r \in {advance_sequence(Fields)} :
    /\ seqs' = r.p.seqs
    /\ active_sequence' = r.p.active_sequence
    /\ sequence_queue' = r.p.sequence_queue
    /\ awaiting_confirmation' = r.p.awaiting_confirmation
    /\ command_history' = r.p.command_history
    /\ activation_order' = r.p.activation_order
    /\ ret' = r.ret
    /\ UNCHANGED <<threads, input_text, out>>

HandleConfirmation ==
    \E confirmed \in BOOLEAN :
        \E r \in {handle_confirmation(Fields, confirmed)} :
        /\ seqs' = r.p.seqs
        /\ active_sequence' = r.p.active_sequence
        /\ sequence_queue' = r.p.sequence_queue
        /\ awaiting_confirmation' = r.p.awaiting_confirmation
        /\ command_history' = r.p.command_history
        /\ activation_order' = r.p.activation_order
        /\ ret' = r.ret
        /\ UNCHANGED <<threads, input_text, out>>

RequestConfirmation ==
    \E r \in {request_confirmation(Fields)} :
    /\ seqs' = r.p.seqs
    /\ active_sequence' = r.p.active_sequence
    /\ sequence_queue' = r.p.sequence_queue
    /\ awaiting_confirmation' = r.p.awaiting_confirmation
    /\ command_history' = r.p.command_history
    /\ activation_order' = r.p.activation_order
    /\ ret' = r.ret
    /\ UNCHANGED <<threads, input_text, out>>

CancelAll ==
    \E r \in {cancel_all(Fields)} :
    /\ seqs' = r.p.seqs
    /\ active_sequence' = r.p.active_sequence
    /\ sequence_queue' = r.p.sequence_queue
    /\ awaiting_confirmation' = r.p.awaiting_confirmation
    /\ command_history' = r.p.command_history
    /\ activation_order' = r.p.activation_order
    /\ ret' = r.ret
    /\ UNCHANGED <<threads, input_text, out>>

Next ==
    \/ QueueSequence
    \/ ProcessCurrentCommand
    \/ AdvanceSequence
    \/ HandleConfirmation
    \/ RequestConfirmation
    \/ CancelAll

Spec == Init /\ [][Next]_vars

----------------------------------------------------------------------------
(* The utility functions applied to what the user said *)

\* what utterances are made of: a word, blanks, a line break, two list
\* markers, connectors in lower case and capitalised
UtterancePieces ==
    {<<"a">>,
     <<" ">>,
     <<"\n">>,
     <<"1", ".">>,
     <<"2", ".">>,
     <<" ", "a", "n", "d", " ">>,
     <<" ", "t", "h", "e", "n", " ">>,
     <<" ", "A", "n", "d", " ">>}

\* what replies are made of: terms of both lists, plain and capitalised, other
\* words and a blank
ReplyPieces ==
    {<<"y", "e", "s">>,
     <<"Y", "e", "s">>,
     <<"n", "o">>,
     <<"s", "t", "o", "p">>,
     <<"k">>,
     <<"w", "h", "a", "t">>,
     <<" ">>}

\* the strings made of at most n of the pieces
RECURSIVE Joined(_, _)
Joined(pieces, n) ==
    IF n = 0 THEN {<<>>}
    ELSE LET shorter == Joined(pieces, n - 1)
         IN  shorter \cup {s \o piece : s \in shorter, piece \in pieces}

InitText ==
    /\ InitProcessor
    /\ input_text \in Joined(UtterancePieces, MaxPieces)
                      \cup Joined(ReplyPieces, MaxReplyPieces)
    /\ out = NoOutput

\* process_command segments the utterance
ExtractStepsFromText ==
    /\ out' = [NoOutput EXCEPT !.op = "extract_steps_from_text",
                               !.steps = extract_steps_from_text(input_text)]
    /\ UNCHANGED <<seqs, active_sequence, sequence_queue, awaiting_confirmation,
                   command_history, activation_order, ret, threads, input_text>>

\* process_command reads the utterance as a reply
IsConfirmation ==
    /\ \E r \in {is_confirmation(input_text)} :
          out' = [NoOutput EXCEPT
                     !.op = "is_confirmation",
                     !.is_confirmation_response = r.is_confirmation_response,
                     !.confirmed = r.confirmed]
    /\ UNCHANGED <<seqs, active_sequence, sequence_queue, awaiting_confirmation,
                   command_history, activation_order, ret, threads, input_text>>

NextText ==
    \/ ExtractStepsFromText
    \/ IsConfirmation

SpecText == InitText /\ [][NextText]_vars

----------------------------------------------------------------------------
(* Calls from two threads. CommandProcessor holds no lock, so a call of one *)
(* thread can run between two statements of a call of the other. A thread  *)
(* can be preempted inside queue_sequence after the append and after the   *)
(* test of active_sequence, and inside process_current_command while the   *)
(* handler runs; every other stretch of code is taken in one step, which   *)
(* leaves out interleavings but adds none.                                 *)

\* whether process_current_command, called now, reaches the handler call
HandlerCalled(p) ==
    /\ p.active_sequence # None
    /\ get_current_command(p.seqs[p.active_sequence]) # -1
    /\ ResolveIntent(CommandAt(p.seqs[p.active_sequence],
                               get_current_command(p.seqs[p.active_sequence])))
           \in command_handlers

\* process_current_command from the return of the handler on: the statements
\* read self.active_sequence again. With no active sequence the attribute
\* access raises inside the try block and again inside the except block,
\* from where the exception reaches the caller.
handler_returned(p, dispatched, outcome) ==
    LET r == [NoReturn EXCEPT !.op = "process_current_command",
                              !.gated = p.awaiting_confirmation,
                              !.arg = outcome, !.dispatched = dispatched]
        id == p.active_sequence
    IN
    IF id = None
    THEN [p |-> p, ret |-> [r EXCEPT !.raised = TRUE]]
    ELSE IF outcome = "returns"
    THEN [p |-> [p EXCEPT !.seqs[id] =
                    mark_current_complete(p.seqs[id], "handler result")],
          ret |-> [r EXCEPT !.msg = "handler response", !.ok = TRUE,
                            !.result = "handler result",
                            !.cmd = <<id, get_current_command(p.seqs[id])>>]]
    ELSE [p |-> [p EXCEPT !.seqs[id] =
                    mark_current_failed(p.seqs[id], "Error processing command")],
          ret |-> [r EXCEPT !.msg = "Error processing command",
                            !.cmd = <<id, get_current_command(p.seqs[id])>>]]

\* queue_sequence, the append
QueueAppend(t) ==
    /\ threads[t].pc = "none"
    /\ Len(seqs) < MaxThreadSeqs
    /\ \E inputs \in InputLists :
          /\ TotalCmds(seqs) + Len(inputs) <= MaxTotalCmds
          /\ seqs' = Append(seqs, NewSequence(inputs))
    /\ sequence_queue' = Append(sequence_queue, Len(seqs) + 1)
    /\ threads' = [threads EXCEPT ![t] = [pc |-> "appended",
                                          id |-> Len(seqs) + 1, idx |-> -1]]
    /\ UNCHANGED <<active_sequence, awaiting_confirmation, command_history,
                   activation_order, ret, input_text, out>>

\* queue_sequence, the test of active_sequence
QueueTestActive(t) ==
    /\ threads[t].pc = "appended"
    /\ IF active_sequence = None
       THEN /\ threads' = [threads EXCEPT ![t].pc = "starting"]
            /\ ret' = ret
       ELSE /\ threads' = [threads EXCEPT ![t] = NotCalling]
            /\ ret' = [NoReturn EXCEPT !.op = "queue_sequence",
                                       !.cmd = <<threads[t].id, -1>>,
                                       !.gated = awaiting_confirmation]
    /\ UNCHANGED <<seqs, active_sequence, sequence_queue, awaiting_confirmation,
                   command_history, activation_order, input_text, out>>

\* queue_sequence, the call of _process_next_from_queue
QueueStart(t) ==
    /\ threads[t].pc = "starting"
    /\ \E r \in {process_next_from_queue(Fields)} :
          /\ seqs' = r.p.seqs
          /\ active_sequence' = r.p.active_sequence
          /\ sequence_queue' = r.p.sequence_queue
          /\ activation_order' = r.p.activation_order
    /\ threads' = [threads EXCEPT ![t] = NotCalling]
    /\ ret' = [NoReturn EXCEPT !.op = "queue_sequence",
                               !.cmd = <<threads[t].id, -1>>,
                               !.gated = awaiting_confirmation]
    /\ UNCHANGED <<awaiting_confirmation, command_history, input_text, out>>

\* process_current_command up to the call of the handler, or to its return
\* when no handler is called
ProcessDispatch(t) ==
    /\ threads[t].pc = "none"
    /\ IF HandlerCalled(Fields)
       THEN LET id == active_sequence
                cur == get_current_command(seqs[id])
            IN  /\ seqs' = [seqs EXCEPT ![id].commands[cur + 1].intent =
                               ResolveIntent(CommandAt(seqs[id], cur))]
                /\ threads' = [threads EXCEPT ![t] = [pc |-> "handler",
                                                      id |-> id, idx |-> cur]]
                /\ ret' = ret
       ELSE \E r \in {process_current_command(Fields, "returns")} :
                /\ seqs' = r.p.seqs
                /\ ret' = r.ret
                /\ threads' = threads
    /\ UNCHANGED <<active_sequence, sequence_queue, awaiting_confirmation,
                   command_history, activation_order, input_text, out>>

\* process_current_command from the return of the handler on
ProcessHandlerReturns(t) ==
    /\ threads[t].pc = "handler"
    /\ \E outcome \in HandlerOutcomes :
          \E r \in {handler_returned(Fields, <<threads[t].id, threads[t].idx>>,
                                     outcome)} :
              /\ seqs' = r.p.seqs
              /\ ret' = r.ret
    /\ threads' = [threads EXCEPT ![t] = NotCalling]
    /\ UNCHANGED <<active_sequence, sequence_queue, awaiting_confirmation,
                   command_history, activation_order, input_text, out>>

\* a thread that is not inside a call makes one of the other calls
OtherCall ==
    /\ \E t \in Threads : threads[t].pc = "none"
    /\ \/ AdvanceSequence
       \/ HandleConfirmation
       \/ RequestConfirmation
       \/ CancelAll

NextThreads ==
    \/ \E t \in Threads : QueueAppend(t)
    \/ \E t \in Threads : QueueTestActive(t)
    \/ \E t \in Threads : QueueStart(t)
    \/ \E t \in Threads : ProcessDispatch(t)
    \/ \E t \in Threads : ProcessHandlerReturns(t)
    \/ OtherCall

SpecThreads == Init /\ [][NextThreads]_vars

----------------------------------------------------------------------------
(* The caller protocol of main.py: what process_command does with each     *)
(* utterance that reaches the processor. An utterance is handled to its    *)
(* end before the next one is read, so each is one step. Utterances that   *)
(* make no call on the processor (a single command, a "yes" nobody asked   *)
(* for) are left out.                                                      *)

\* the step texts the segmenter hands over: one that the keyword fallback
\* resolves to "spotify" and one it resolves to "general"
StepTexts == {<<"play", "jazz">>, <<"open", "github">>}

\* the step lists of a multi-step utterance (len(steps) > 1)
StepLists == UNION { [1..n -> StepTexts] : n \in 2..MaxSteps }

\* create_sequence: a Command per step text, no intent given
create_sequence(commands) ==
    NewSequence([i \in 1..Len(commands) |->
                    [text |-> commands[i], intent |-> NoValue]])

\* _request_next_step_confirmation, after a call that returned last_ret;
\* sequences built by main.py require confirmation
request_next_step_confirmation(p, last_ret) ==
    IF p.active_sequence # None
    THEN request_confirmation(p)
    ELSE [p |-> p, ret |-> last_ret]

\* _handle_multi_step_command, the handler of the first dispatch doing
\* `outcome`: queue_sequence, process_current_command, then
\* _request_next_step_confirmation, each on the fields the call before left
handle_multi_step_command(p, steps, outcome) ==
    CHOOSE r \in
        { request_next_step_confirmation(processed.p, processed.ret) :
            processed \in
              { process_current_command(queued.p, outcome) :
                  queued \in {queue_sequence(p, create_sequence(steps))} } } :
        TRUE

\* process_command on a confirmation response while a confirmation is
\* awaited: handle_confirmation and, after a "yes", process_current_command
\* and _request_next_step_confirmation
confirmation_response(p, confirmed, outcome) ==
    CHOOSE r \in
        { IF ~confirmed
          THEN handled
          ELSE CHOOSE q \in
                 { request_next_step_confirmation(processed.p, processed.ret) :
                     processed \in
                       {process_current_command(handled.p, outcome)} } : TRUE
          : handled \in {handle_confirmation(p, confirmed)} } :
        TRUE

\* the user says several steps at once; while a confirmation is awaited the
\* utterance is one that is_confirmation does not recognise
MultiStepUtterance ==
    /\ Len(seqs) < MaxUtterances
    /\ \E steps \in StepLists, outcome \in HandlerOutcomes :
          \E r \in {handle_multi_step_command(Fields, steps, outcome)} :
             /\ seqs' = r.p.seqs
             /\ active_sequence' = r.p.active_sequence
             /\ sequence_queue' = r.p.sequence_queue
             /\ awaiting_confirmation' = r.p.awaiting_confirmation
             /\ command_history' = r.p.command_history
             /\ activation_order' = r.p.activation_order
             /\ ret' = r.ret
             /\ UNCHANGED <<threads, input_text, out>>

\* the user answers the prompt with a confirmation term
YesUtterance ==
    /\ awaiting_confirmation
    /\ \E outcome \in HandlerOutcomes :
          \E r \in {confirmation_response(Fields, TRUE, outcome)} :
             /\ seqs' = r.p.seqs
             /\ active_sequence' = r.p.active_sequence
             /\ sequence_queue' = r.p.sequence_queue
             /\ awaiting_confirmation' = r.p.awaiting_confirmation
             /\ command_history' = r.p.command_history
             /\ activation_order' = r.p.activation_order
             /\ ret' = r.ret
             /\ UNCHANGED <<threads, input_text, out>>

\* the user answers the prompt with a rejection term
NoUtterance ==
    /\ awaiting_confirmation
    /\ \E r \in {confirmation_response(Fields, FALSE, "returns")} :
          /\ seqs' = r.p.seqs
          /\ active_sequence' = r.p.active_sequence
          /\ sequence_queue' = r.p.sequence_queue
          /\ awaiting_confirmation' = r.p.awaiting_confirmation
          /\ command_history' = r.p.command_history
          /\ activation_order' = r.p.activation_order
          /\ ret' = r.ret
          /\ UNCHANGED <<threads, input_text, out>>

\* the user says "cancel task" (_handle_assistant_control); while a
\* confirmation is awaited the words are a rejection term and the utterance
\* is NoUtterance
CancelUtterance ==
    /\ ~awaiting_confirmation
    /\ CancelAll

NextCaller ==
    \/ MultiStepUtterance
    \/ YesUtterance
    \/ NoUtterance
    \/ CancelUtterance

\* The user decides what to say and when, except that a prompt left open is
\* eventually answered with "yes" unless something else closes it.
SpecCaller == Init /\ [][NextCaller]_vars /\ WF_vars(YesUtterance)

----------------------------------------------------------------------------
(* Properties *)

\* the sequences that are in history
Retired == {command_history[i] : i \in 1..Len(command_history)}

\* the sequences that have been made active
Activated == {activation_order[i] : i \in 1..Len(activation_order)}

\* C1: at most one sequence is active (every sequence that was made active
\* and is not yet retired is the one active_sequence holds), and
\* queue_sequence called while a sequence is active keeps active_sequence and
\* only appends the new sequence at the tail of sequence_queue.
C1_OneActiveAndBusyQueueAppends ==
    /\ (Activated \ Retired) \subseteq {active_sequence}
    /\ active_sequence # None =>
          \A inputs \in InputLists :
              LET q == queue_sequence(Fields, NewSequence(inputs)).p IN
              /\ q.active_sequence = active_sequence
              /\ q.sequence_queue = Append(sequence_queue, Len(seqs) + 1)
              /\ SubSeq(q.seqs, 1, Len(seqs)) = seqs
              /\ q.awaiting_confirmation = awaiting_confirmation
              /\ q.command_history = command_history

\* C1 witness: queue_sequence has run on a busy processor that already had a
\* sequence waiting, and the new sequence is the last of the queue
C1_Witness ==
    /\ ret.op = "queue_sequence"
    /\ active_sequence \notin {None, ret.cmd[1]}
    /\ Len(sequence_queue) >= 2
    /\ sequence_queue[Len(sequence_queue)] = ret.cmd[1]

\* C2: a sequence whose state is Completed has all its commands Completed.
C2_CompletedSequenceHasCompletedCommands ==
    \A i \in 1..Len(seqs) :
        seqs[i].state = COMPLETED =>
            \A k \in 1..Len(seqs[i].commands) :
                seqs[i].commands[k].state = COMPLETED

\* C3: when process_current_command has a current command and no handler is
\* registered for its intent, or the handler raises (or its value does not
\* unpack), that call leaves the command Failed with the failure reason as
\* its error and the active sequence Failed.
C3_DispatchFailureFailsCommandAndSequence ==
    (active_sequence # None /\ get_current_command(seqs[active_sequence]) # -1) =>
        \A outcome \in HandlerOutcomes :
            LET a == active_sequence
                cur == get_current_command(seqs[a])
                handled == ResolveIntent(CommandAt(seqs[a], cur)) \in command_handlers
                r == process_current_command(Fields, outcome)
                c == CommandAt(r.p.seqs[a], cur)
            IN  (~handled \/ outcome # "returns") =>
                    /\ c.state = FAILED
                    /\ c.error = IF handled THEN r.ret.msg
                                 ELSE "No handler found for intent"
                    /\ c.error # NoValue
                    /\ r.p.seqs[a].state = FAILED
                    /\ r.p.active_sequence = a

\* C3 witness: a handler has just raised on the second command of the active
\* sequence, which is Failed like the command
C3_Witness ==
    /\ ret.op = "process_current_command"
    /\ ret.arg = "raises"
    /\ ret.dispatched = <<active_sequence, 1>>
    /\ seqs[active_sequence].state = FAILED
    /\ CommandAt(seqs[active_sequence], 1).state = FAILED
    /\ CommandAt(seqs[active_sequence], 1).error = "Error processing command"


\* C4: once a command of a sequence has failed (its error is set), no later
\* command of that sequence leaves Pending.
C4_NoStepAfterFailure ==
    \A i \in 1..Len(seqs) :
        \A j, k \in 1..Len(seqs[i].commands) :
            (j < k /\ seqs[i].commands[j].error # NoValue) =>
                seqs[i].commands[k].state = PENDING

\* C5: right after process_current_command reports a dispatch failure the
\* failed sequence is not active but in history, and with no sequence
\* activated in its place advance_sequence fails with "No active command
\* sequence."
C5_FailedSequenceRetiredAtOnce ==
    (ret.op = "process_current_command" /\ ret.cmd[1] # None /\ ~ret.ok) =>
        /\ active_sequence # ret.cmd[1]
        /\ ret.cmd[1] \in Retired
        /\ active_sequence = None =>
              LET r == advance_sequence(Fields).ret IN
              ~r.ok /\ r.msg = "No active command sequence."

\* C6: sequences become active in the order queue_sequence received them
\* (identities are assigned in that order), and a sequence becomes active
\* only when every sequence activated before it has been retired.
C6_ActivationInQueueOrder ==
    /\ \A i, j \in 1..Len(activation_order) :
          i < j => activation_order[i] < activation_order[j]
    /\ \A i \in 1..(Len(activation_order) - 1) :
          activation_order[i] \in Retired

\* C6 witness: advance_sequence has started the next sequence from a queue
\* that held two, after two earlier activations
C6_Witness ==
    /\ ret.op = "advance_sequence"
    /\ ret.msg = "Started next command sequence."
    /\ sequence_queue # <<>>
    /\ activation_order = <<1, 2>>

\* the cursor and the command states of every sequence
CursorsAndStates(ss) ==
    [i \in 1..Len(ss) |->
        [cursor |-> ss[i].current_index,
         states |-> [k \in 1..Len(ss[i].commands) |-> ss[i].commands[k].state]]]

\* C7: while awaiting_confirmation is true, advance_sequence and
\* process_current_command leave the cursor and all command states unchanged
\* and dispatch nothing.
C7_GatedCallsDoNotAdvance ==
    [][(awaiting_confirmation
        /\ ret'.op \in {"advance_sequence", "process_current_command"}) =>
            /\ CursorsAndStates(seqs') = CursorsAndStates(seqs)
            /\ ret'.dispatched = <<None, -1>>]_vars

\* C8: handle_confirmation, for either argument, called while
\* awaiting_confirmation is false returns failure with "No confirmation was
\* requested." and changes no field of the processor or of a sequence.
C8_UnrequestedConfirmationChangesNothing ==
    ~awaiting_confirmation =>
        \A confirmed \in BOOLEAN :
            LET r == handle_confirmation(Fields, confirmed) IN
            /\ r.p = Fields
            /\ ~r.ret.ok
            /\ r.ret.msg = "No confirmation was requested."

\* C8 witness: handle_confirmation has just been refused on a processor with
\* an active sequence, a waiting one and a retired one
C8_Witness ==
    /\ ret.op = "handle_confirmation"
    /\ ~ret.gated /\ ~ret.ok
    /\ ret.msg = "No confirmation was requested."
    /\ active_sequence # None
    /\ sequence_queue # <<>>
    /\ command_history # <<>>

C11_ConfirmationIsAdvance ==
    (awaiting_confirmation /\ active_sequence # None) =>
        LET h == handle_confirmation(Fields, TRUE)
            a == advance_sequence(Fields)
        IN  /\ h.p = a.p
            /\ ~h.p.awaiting_confirmation
            /\ h.ret.ok = a.ret.ok
            /\ h.ret.msg = a.ret.msg

\* C11 witness: a confirmation has just moved the gated sequence to its next
\* command
C11_Witness ==
    /\ ret.op = "handle_confirmation" /\ ret.arg = "True" /\ ret.gated
    /\ ret.ok /\ ret.msg = "Moving to next step"
    /\ ~awaiting_confirmation
    /\ active_sequence # None
    /\ seqs[active_sequence].current_index = 1
    /\ CommandAt(seqs[active_sequence], 1).state = IN_PROGRESS


\* C12: request_confirmation returns success exactly when it was called with a
\* sequence active, the gate clear and a next command in the active sequence;
\* a successful call leaves the gate set, and a failing call leaves the gate
\* as it was.
C12_RequestOnlyWhenExecuting ==
    ret.op = "request_confirmation" =>
        /\ ret.ok <=> /\ active_sequence # None
                      /\ ~ret.gated
                      /\ get_next_command(seqs[active_sequence]) # -1
        /\ ret.ok => awaiting_confirmation
        /\ ~ret.ok => (awaiting_confirmation = ret.gated)


ProcessReturnsWhenUndisturbed ==
    \A outcome \in HandlerOutcomes :
        LET r == process_current_command(Fields, outcome)
            c == CommandAt(r.p.seqs[r.ret.cmd[1]], r.ret.cmd[2])
        IN  /\ ~r.ret.raised
            /\ r.ret.msg # ""
            /\ r.p.active_sequence = active_sequence
            /\ r.p.sequence_queue = sequence_queue
            /\ r.p.awaiting_confirmation = awaiting_confirmation
            /\ r.p.command_history = command_history
            /\ r.ret.dispatched # <<None, -1>> =>
                  IF outcome = "returns"
                  THEN c.state = COMPLETED /\ c.result = r.ret.result
                  ELSE /\ c.state = FAILED /\ c.error = r.ret.msg
                       /\ r.ret.result = NoValue

\* C15: process_current_command never ends in an exception reaching its
\* caller, whatever the handler does and whatever the other thread calls
\* while the handler runs.
C15_ProcessNeverRaises ==
    ret.op = "process_current_command" => ~ret.raised


\* C16: when the handler returns normally, process_current_command sets the
\* current command to Completed with the handler's result (and its resolved
\* intent and completion time) and changes nothing else: the cursor, the
\* sequence's state, the other commands, active_sequence, the queue, the gate
\* and history are as they were.
C16_SuccessChangesOnlyCurrentCommand ==
    LET r == process_current_command(Fields, "returns")
        a == active_sequence
        i == seqs[a].current_index
        c == CommandAt(seqs[a], i)
    IN  r.ret.dispatched # <<None, -1>> =>
            /\ r.ret.dispatched = <<a, i>>
            /\ r.ret.result = "handler result"
            /\ r.p = [Fields EXCEPT !.seqs[a].commands[i + 1] =
                        [c EXCEPT !.state = COMPLETED,
                                  !.result = r.ret.result,
                                  !.completed_at = TRUE,
                                  !.intent = ResolveIntent(c)]]

\* C16 witness: a handler has just returned for the second command of a
\* sequence whose first command is Completed; the command is Completed with
\* the result, the cursor is still on it and the sequence is InProgress
C16_Witness ==
    /\ ret.op = "process_current_command" /\ ret.arg = "returns" /\ ret.ok
    /\ ret.dispatched = <<active_sequence, 1>>
    /\ seqs[active_sequence].current_index = 1
    /\ seqs[active_sequence].state = IN_PROGRESS
    /\ CommandAt(seqs[active_sequence], 0).state = COMPLETED
    /\ CommandAt(seqs[active_sequence], 1).state = COMPLETED
    /\ CommandAt(seqs[active_sequence], 1).result = ret.result
    /\ sequence_queue # <<>>


\* every call a client can make on the processor as it stands, with the
\* fields and the return value each one produces
Calls ==
    {queue_sequence(Fields, NewSequence(inputs)) : inputs \in InputLists}
    \cup {process_current_command(Fields, outcome) : outcome \in HandlerOutcomes}
    \cup {handle_confirmation(Fields, confirmed) : confirmed \in BOOLEAN}
    \cup {advance_sequence(Fields), request_confirmation(Fields),
          cancel_all(Fields)}

\* C17: no call on the processor decreases the cursor of any sequence.
C17_CursorNeverDecreases ==
    \A r \in Calls :
        \A i \in 1 .. Len(seqs) :
            r.p.seqs[i].current_index >= seqs[i].current_index

\* C17 witness: a sequence has been walked to its last command and retired,
\* its cursor still on that command, and calls have been made since
C17_Witness ==
    /\ command_history # <<>>
    /\ seqs[command_history[1]].current_index = 1
    /\ Len(seqs[command_history[1]].commands) = 2
    /\ active_sequence # None
    /\ seqs[active_sequence].current_index = 0
    /\ ret.op = "process_current_command"


\* the place of a command state in the order Pending, InProgress, then
\* Completed or Failed
StateRank(state) ==
    CASE state = PENDING -> 0
      [] state = IN_PROGRESS -> 1
      [] OTHER -> 2

\* C18: no step moves a command to an earlier state, and a command that is
\* Completed or Failed keeps its state in every later step.
C18_CommandStateOnlyForward ==
    [][\A i \in 1 .. Len(seqs) : \A k \in 1 .. Len(seqs[i].commands) :
          LET before == seqs[i].commands[k].state
              after == seqs'[i].commands[k].state
          IN  /\ StateRank(after) >= StateRank(before)
              /\ before \in {COMPLETED, FAILED} => after = before]_vars


\* C19: no command ever holds both a result and an error, and a result or an
\* error that has been assigned is not assigned again:
\* process_current_command does not act on a command that holds one of them.
C19_ResultAndErrorExclusiveAndSetOnce ==
    [][\A i \in 1 .. Len(seqs) : \A k \in 1 .. Len(seqs[i].commands) :
          LET before == seqs[i].commands[k]
              after == seqs'[i].commands[k]
          IN  /\ ~(after.result # NoValue /\ after.error # NoValue)
              /\ (before.result # NoValue \/ before.error # NoValue) =>
                    /\ after.result = before.result
                    /\ after.error = before.error
                    /\ ~(ret'.op = "process_current_command"
                         /\ ret'.cmd = <<i, k - 1>>)]_vars


\* C20: no sequence is in history more than once, a sequence in history is
\* neither active nor queued, and no call on the processor changes a sequence
\* that is in history (its state, its cursor, its commands) or adds it to
\* history again.
C20_RetiredOnceAndImmutable ==
    /\ \A i, j \in 1 .. Len(command_history) :
          command_history[i] = command_history[j] => i = j
    /\ \A r \in Calls :
          \A i \in Retired :
              /\ r.p.seqs[i] = seqs[i]
              /\ r.p.active_sequence # i
              /\ \A k \in Len(command_history) + 1 .. Len(r.p.command_history) :
                    r.p.command_history[k] # i

\* C20 witness: two sequences are in history, one Completed and one
\* Cancelled, and a handler has since been called for a command of a third
C20_Witness ==
    /\ Len(command_history) = 2
    /\ seqs[command_history[1]].state = COMPLETED
    /\ seqs[command_history[2]].state = CANCELLED
    /\ ret.op = "process_current_command"
    /\ ret.dispatched[1] = active_sequence
    /\ active_sequence \notin Retired


\* C21: commands of a sequence are dispatched in construction order: a handler
\* is only ever called for the command under the cursor of the active
\* sequence, and every command beyond a cursor has never been dispatched (it
\* is Pending, with no result and no error); with C17 the indices dispatched
\* in a sequence never decrease.
C21_DispatchInConstructionOrder ==
    /\ \A i \in 1 .. Len(seqs) : \A k \in 0 .. Len(seqs[i].commands) - 1 :
          k > seqs[i].current_index =>
              /\ CommandAt(seqs[i], k).state = PENDING
              /\ CommandAt(seqs[i], k).result = NoValue
              /\ CommandAt(seqs[i], k).error = NoValue
    /\ \A outcome \in HandlerOutcomes :
          LET r == process_current_command(Fields, outcome) IN
          r.ret.dispatched # <<None, -1>> =>
              /\ r.ret.dispatched = <<active_sequence,
                                      seqs[active_sequence].current_index>>
              /\ \A i \in 1 .. Len(seqs) : i # active_sequence =>
                    r.p.seqs[i] = seqs[i]
    /\ ret.dispatched # <<None, -1>> =>
          ret.dispatched[2] = seqs[ret.dispatched[1]].current_index

\* C21 witness: command 1 of a sequence has just been dispatched, after
\* command 0 of that sequence was dispatched and completed
C21_Witness ==
    /\ ret.op = "process_current_command"
    /\ ret.dispatched = <<active_sequence, 1>>
    /\ CommandAt(seqs[active_sequence], 0).state = COMPLETED
    /\ CommandAt(seqs[active_sequence], 0).result # NoValue
    /\ CommandAt(seqs[active_sequence], 1).state \in {COMPLETED, FAILED}


\* C29: a successful request_confirmation reports the next command (the one
\* at cursor + 1) with step_number = cursor + 2 and total_steps = the number
\* of commands of the active sequence, so that 2 <= step_number <= total_steps.
C29_ConfirmationReportsNextStep ==
    LET r == request_confirmation(Fields)
        s == seqs[active_sequence]
    IN  r.ret.ok =>
            /\ r.ret.cmd = <<active_sequence, s.current_index + 1>>
            /\ r.ret.step_number = s.current_index + 2
            /\ r.ret.total_steps = Len(s.commands)
            /\ 2 <= r.ret.step_number
            /\ r.ret.step_number <= r.ret.total_steps

\* C29 witness: confirmation has just been requested for step 2 of 2
C29_Witness ==
    /\ ret.op = "request_confirmation" /\ ret.ok
    /\ ret.step_number = 2 /\ ret.total_steps = 2
    /\ ret.cmd = <<active_sequence, 1>>
    /\ seqs[active_sequence].current_index = 0
    /\ awaiting_confirmation


\* C30: command_history is bounded: some sequence that is retired is not
\* kept, so that the length of command_history stays below the number of
\* sequences the run creates (MaxSeqs).
C30_HistoryBounded ==
    Len(command_history) < MaxSeqs


\* C24: extract_steps_from_text returns at least one step and no empty step.
C24_AtLeastOneNonEmptyStep ==
    out.op = "extract_steps_from_text" =>
        /\ Len(out.steps) >= 1
        /\ \A i \in 1 .. Len(out.steps) : out.steps[i] # <<>>

\* a text with no list marker ("1." to "9.") and no connector word
NoDelimiters(s) ==
    /\ ~\E d \in Digits : Contains(s, <<d, ".">>)
    /\ \A i \in 1 .. Len(connectors) : ~Contains(lower(s), strip(connectors[i]))

\* C25: for a text with no list marker and no connector word,
\* extract_steps_from_text returns the one-element list of the text with its
\* leading and trailing whitespace removed.
C25_SingleClauseIsTrimmed ==
    (out.op = "extract_steps_from_text" /\ NoDelimiters(input_text)) =>
        out.steps = <<strip(input_text)>>

\* the position of the first list marker of s at or after position i, 0 if
\* there is none
NextMarker(s, i) ==
    LET at == {k \in i .. Len(s) - 1 : s[k] \in Digits /\ s[k + 1] = "."}
    IN  IF at = {} THEN 0 ELSE CHOOSE k \in at : \A m \in at : k <= m

\* the text between each list marker and the next one, from the marker at
\* position i on
RECURSIVE MarkerFragments(_, _)
MarkerFragments(s, i) ==
    IF i = 0 THEN <<>>
    ELSE LET n == NextMarker(s, i + 2)
         IN  <<SubSeq(s, i + 2, IF n = 0 THEN Len(s) ELSE n - 1)>>
             \o MarkerFragments(s, n)

\* C26: for a text with list markers, extract_steps_from_text returns the
\* texts between each marker and the next, in textual order, empty ones
\* discarded: n markers on one line with text after each give n steps.
C26_OneStepPerMarker ==
    (out.op = "extract_steps_from_text" /\ NextMarker(input_text, 1) # 0) =>
        out.steps = StrippedNonEmpty(
                        MarkerFragments(input_text, NextMarker(input_text, 1)))

\* the clauses of s between the occurrences of any connector, whatever the
\* letter case
RECURSIVE ClausesBetweenConnectors(_)
ClausesBetweenConnectors(s) ==
    LET at == {k \in 1 .. Len(s) :
                  \E i \in 1 .. Len(connectors) :
                      OccursAt(lower(s), connectors[i], k)}
    IN  IF at = {} THEN <<s>>
        ELSE LET k == CHOOSE m \in at : \A n \in at : m <= n
                 c == CHOOSE i \in 1 .. Len(connectors) :
                          OccursAt(lower(s), connectors[i], k)
             IN  <<SubSeq(s, 1, k - 1)>>
                 \o ClausesBetweenConnectors(
                        SubSeq(s, k + Len(connectors[c]), Len(s)))

\* C27: for a text with no list marker, extract_steps_from_text splits at
\* every occurrence of every connector, in any letter case, and returns the
\* non-empty clauses in order: k occurrences between k + 1 non-empty clauses
\* give k + 1 steps.
C27_SplitAtEveryConnector ==
    (/\ out.op = "extract_steps_from_text"
     /\ NextMarker(input_text, 1) = 0
     /\ Len(ClausesBetweenConnectors(input_text)) >= 2) =>
        out.steps = StrippedNonEmpty(ClausesBetweenConnectors(input_text))

\* C28: is_confirmation returns (r, a) with r true exactly when the
\* lower-cased, stripped text contains a confirmation term or a rejection
\* term, and a true exactly when it contains a confirmation term; a implies
\* r, both kinds give (true, true), neither gives (false, false).
C28_ConfirmationFlags ==
    out.op = "is_confirmation" =>
        LET t == strip(lower(input_text))
            affirmative == \E term \in confirmation_terms : Contains(t, term)
            negative == \E term \in rejection_terms : Contains(t, term)
        IN  /\ out.is_confirmation_response <=> (affirmative \/ negative)
            /\ out.confirmed <=> affirmative
            /\ out.confirmed => out.is_confirmation_response
            /\ (affirmative /\ negative) =>
                  (out.is_confirmation_response /\ out.confirmed)
            /\ (~affirmative /\ ~negative) =>
                  (~out.is_confirmation_response /\ ~out.confirmed)

\* C28 witness: a reply holding a capitalised confirmation term and a
\* rejection term has been read as a confirmation
C28_Witness ==
    /\ out.op = "is_confirmation"
    /\ Contains(input_text, <<"Y", "e", "s">>)
    /\ Contains(input_text, <<"s", "t", "o", "p">>)
    /\ out.is_confirmation_response /\ out.confirmed


\* C22: calls made concurrently from two threads leave the state some serial
\* order of the calls leaves: in particular every sequence that has been
\* started is the active sequence or is in history, so that two
\* queue_sequence calls on an idle processor lose no sequence.
C22_ConcurrentCallsLoseNoSequence ==
    \A i \in 1 .. Len(seqs) :
        seqs[i].state # PENDING =>
            \/ i = active_sequence
            \/ i \in Retired

\* C23: when the handler of a command returns after the command's sequence
\* was cancelled, process_current_command returns without raising and
\* changes no sequence: neither the cancelled one nor one made active since.
C23_ResultAfterCancelDiscarded ==
    [][\A t \in Threads :
          (/\ threads[t].pc = "handler"
           /\ threads'[t].pc = "none"
           /\ seqs[threads[t].id].state = CANCELLED) =>
                /\ ~ret'.raised
                /\ seqs' = seqs]_vars


\* C31: under the protocol of main.py, a sequence that has become active
\* is eventually retired to history in state Completed, unless one of its
\* handlers failed or it was cancelled (a prompt answered "no", or "cancel
\* task").
C31_AllYesEventuallyCompletes ==
    \A id \in 1..MaxUtterances :
        (active_sequence = id) ~>
            (/\ id <= Len(seqs)
             /\ \/ id \in Retired /\ seqs[id].state = COMPLETED
                \/ seqs[id].state = CANCELLED
                \/ \E i \in 1..Len(seqs[id].commands) :
                      seqs[id].commands[i].state = FAILED)


\* one iteration of the loop of test_sequence_state_transitions, run for
\* sequence id on the processor fields p, the handler doing `outcome`:
\* handle_confirmation(True) if a confirmation is awaited, then, the sequence
\* having a current command, process_current_command and advance_sequence
LoopIteration(p, id, outcome) ==
    CHOOSE q \in
        { IF get_current_command(confirmed.p.seqs[id]) # -1
          THEN CHOOSE a \in
                 { advance_sequence(processed.p).p :
                     processed \in
                       {process_current_command(confirmed.p, outcome)} } : TRUE
          ELSE confirmed.p
          : confirmed \in
              { IF p.awaiting_confirmation
                THEN handle_confirmation(p, TRUE)
                ELSE [p |-> p, ret |-> NoReturn] } } :
        TRUE

\* the processor fields the loop can end with when it is run on p until
\* sequence id is Completed, for at most k iterations
RECURSIVE LoopRuns(_, _, _)
LoopRuns(p, id, k) ==
    IF p.seqs[id].state = COMPLETED \/ k = 0
    THEN {p}
    ELSE UNION { LoopRuns(LoopIteration(p, id, outcome), id, k - 1) :
                    outcome \in HandlerOutcomes }

\* C32: for an active sequence of n >= 1 commands, the loop "if gated then
\* handle_confirmation(True); process_current_command; advance_sequence"
\* ends within n iterations, whatever the handlers do, with the sequence in
\* state Completed and its completed_at set.
C32_LoopTerminatesCompleted ==
    (active_sequence # None /\ Len(seqs[active_sequence].commands) >= 1) =>
        \A q \in LoopRuns(Fields, active_sequence,
                          Len(seqs[active_sequence].commands)) :
            /\ q.seqs[active_sequence].state = COMPLETED
            /\ q.seqs[active_sequence].completed_at

\* a two-command sequence is active on its first command, no confirmation is
\* awaited, and the loop run from here takes its two iterations: one is not
\* enough, and every run of two ends with the sequence Completed in history
C32_Witness ==
    /\ active_sequence # None
    /\ Len(seqs[active_sequence].commands) = 2
    /\ seqs[active_sequence].current_index = 0
    /\ ~awaiting_confirmation
    /\ \A q \in LoopRuns(Fields, active_sequence, 1) :
          q.seqs[active_sequence].state # COMPLETED
    /\ \A q \in LoopRuns(Fields, active_sequence, 2) :
          /\ q.seqs[active_sequence].state = COMPLETED
          /\ \E i \in 1..Len(q.command_history) :
                q.command_history[i] = active_sequence


\* C33: whenever a confirmation is awaited, a sequence is active and has a
\* next command, and handle_confirmation(True) called then moves the cursor
\* of that sequence forward by exactly one, keeps it active with its state,
\* and retires nothing.
C33_GatedHasNextAndConfirmationStepsOnce ==
    awaiting_confirmation =>
        /\ active_sequence # None
        /\ seqs[active_sequence].current_index + 1
              < Len(seqs[active_sequence].commands)
        /\ \A r \in {handle_confirmation(Fields, TRUE)} :
              /\ r.p.active_sequence = active_sequence
              /\ r.p.seqs[active_sequence].current_index
                    = seqs[active_sequence].current_index + 1
              /\ r.p.seqs[active_sequence].state = seqs[active_sequence].state
              /\ r.p.seqs[active_sequence].state # COMPLETED
              /\ r.p.command_history = command_history
              /\ r.p.sequence_queue = sequence_queue
              /\ r.ret.ok

\* handle_confirmation(True) has just answered an awaited confirmation: the
\* sequence it was asked about is still active, one command further, while
\* another sequence waits in the queue
C33_Witness ==
    /\ ret.op = "handle_confirmation" /\ ret.arg = "True" /\ ret.gated
    /\ ret.msg = "Moving to next step"
    /\ active_sequence # None
    /\ seqs[active_sequence].current_index = 1
    /\ sequence_queue # <<>>
    /\ ~awaiting_confirmation


\* C34: in every sequence the cursor lies between -1 and the index of the
\* last command, every command after the cursor is Pending and every
\* command up to the cursor is not; every sequence in the queue has cursor
\* -1 and state Pending.
C34_CursorSplitsPendingCommands ==
    /\ \A id \in 1..Len(seqs) :
          /\ -1 <= seqs[id].current_index
          /\ seqs[id].current_index <= Len(seqs[id].commands) - 1
          /\ \A i \in 0..(Len(seqs[id].commands) - 1) :
                (i > seqs[id].current_index)
                    <=> (CommandAt(seqs[id], i).state = PENDING)
    /\ \A k \in 1..Len(sequence_queue) :
          /\ seqs[sequence_queue[k]].current_index = -1
          /\ seqs[sequence_queue[k]].state = PENDING

\* a sequence was retired with its cursor on its last command, the active
\* sequence has processed its first command and still has a Pending one
\* after the cursor, and a sequence waits in the queue
C34_Witness ==
    /\ \E id \in Retired :
          /\ Len(seqs[id].commands) >= 1
          /\ seqs[id].current_index = Len(seqs[id].commands) - 1
    /\ active_sequence # None
    /\ seqs[active_sequence].current_index = 0
    /\ Len(seqs[active_sequence].commands) = 2
    /\ CommandAt(seqs[active_sequence], 0).state \in {COMPLETED, FAILED}
    /\ CommandAt(seqs[active_sequence], 1).state = PENDING
    /\ sequence_queue # <<>>


\* the number of places of the processor fields p that hold sequence id:
\* the queue, active_sequence and history, each position counted
Places(p, id) ==
    Cardinality({k \in 1..Len(p.sequence_queue) : p.sequence_queue[k] = id})
    + (IF p.active_sequence = id THEN 1 ELSE 0)
    + Cardinality({k \in 1..Len(p.command_history) : p.command_history[k] = id})

C36_IdleMeansEmptyQueue ==
    /\ active_sequence = None => sequence_queue = <<>>
    /\ \A r \in Calls :
          (active_sequence # None /\ r.p.active_sequence # active_sequence) =>
              \/ /\ sequence_queue # <<>>
                 /\ r.p.active_sequence = Head(sequence_queue)
                 /\ r.p.sequence_queue = Tail(sequence_queue)
              \/ /\ r.p.active_sequence = None
                 /\ r.p.sequence_queue = <<>>

\* the processor is idle after handle_confirmation(False) retired the last
\* sequence there was; an earlier retirement had activated that sequence
\* from the queue
C36_Witness ==
    /\ ret.op = "handle_confirmation" /\ ret.arg = "False"
    /\ ret.msg = "Command sequence cancelled."
    /\ active_sequence = None
    /\ sequence_queue = <<>>
    /\ Len(command_history) >= 2
    /\ Len(activation_order) >= 2


\* C37: every sequence in history has state Completed or Cancelled, and a
\* sequence in state Failed is the active one.
C37_HistoryNeverFailed ==
    /\ \A id \in Retired : seqs[id].state \in {COMPLETED, CANCELLED}
    /\ \A id \in 1..Len(seqs) :
          seqs[id].state = FAILED => active_sequence = id

\* history holds a sequence retired as Completed and one retired as
\* Cancelled, each with a Failed command, and the active sequence is Failed
C37_Witness ==
    /\ \E id \in Retired :
          /\ seqs[id].state = COMPLETED
          /\ \E i \in 1..Len(seqs[id].commands) :
                seqs[id].commands[i].state = FAILED
    /\ \E id \in Retired :
          /\ seqs[id].state = CANCELLED
          /\ \E i \in 1..Len(seqs[id].commands) :
                seqs[id].commands[i].state = FAILED
    /\ active_sequence # None
    /\ seqs[active_sequence].state = FAILED


\* C38: process_current_command hands no command to a handler that is
\* already Completed or Failed.
C38_DispatchedAtMostOnce ==
    [][(ret'.op = "process_current_command"
        /\ ret'.dispatched # <<None, -1>>) =>
            CommandAt(seqs[ret'.dispatched[1]], ret'.dispatched[2]).state
                \notin {COMPLETED, FAILED}]_vars


\* C39: queue_sequence of a zero-command sequence on an idle processor
\* leaves it active, Completed, with cursor -1 and out of history; while a
\* zero-command sequence is active, queue_sequence only appends, and
\* advance_sequence and cancel_all take it away; advance_sequence that
\* activates a zero-command sequence from the queue returns "Command
\* sequence completed." with no command although that sequence is active.
C39_EmptySequenceStaysActive ==
    /\ active_sequence = None =>
          \A r \in {queue_sequence(Fields, NewSequence(<<>>))} :
              /\ r.p.active_sequence = Len(seqs) + 1
              /\ r.p.seqs[Len(seqs) + 1].state = COMPLETED
              /\ r.p.seqs[Len(seqs) + 1].current_index = -1
              /\ r.p.command_history = command_history
              /\ r.p.sequence_queue = <<>>
    /\ (active_sequence # None /\ seqs[active_sequence].commands = <<>>) =>
          /\ seqs[active_sequence].state = COMPLETED
          /\ seqs[active_sequence].current_index = -1
          /\ active_sequence \notin Retired
          /\ \A inputs \in InputLists :
                \A r \in {queue_sequence(Fields, NewSequence(inputs))} :
                    /\ r.p.active_sequence = active_sequence
                    /\ r.p.sequence_queue = Append(sequence_queue, Len(seqs) + 1)
                    /\ r.p.seqs[Len(seqs) + 1].state = PENDING
          /\ \A outcome \in HandlerOutcomes :
                process_current_command(Fields, outcome).p = Fields
          /\ request_confirmation(Fields).p = Fields
          /\ advance_sequence(Fields).p.active_sequence # active_sequence
          /\ cancel_all(Fields).p.active_sequence = None
    /\ (active_sequence # None /\ sequence_queue # <<>>
        /\ seqs[active_sequence].current_index + 1
              >= Len(seqs[active_sequence].commands)
        /\ seqs[Head(sequence_queue)].commands = <<>>) =>
          \A r \in {advance_sequence(Fields)} :
              /\ r.ret.msg = "Command sequence completed."
              /\ r.ret.ok
              /\ r.ret.cmd = <<None, -1>>
              /\ r.p.active_sequence = Head(sequence_queue)
              /\ r.p.seqs[Head(sequence_queue)].state = COMPLETED

\* advance_sequence has just reported "Command sequence completed." while
\* leaving a zero-command sequence active, Completed, with cursor -1 and out
\* of history, and a sequence with commands waits behind it in the queue
C39_Witness ==
    /\ ret.op = "advance_sequence"
    /\ ret.msg = "Command sequence completed."
    /\ active_sequence # None
    /\ seqs[active_sequence].commands = <<>>
    /\ seqs[active_sequence].state = COMPLETED
    /\ seqs[active_sequence].current_index = -1
    /\ active_sequence \notin Retired
    /\ sequence_queue # <<>>
    /\ seqs[Head(sequence_queue)].commands # <<>>
    /\ seqs[Head(sequence_queue)].state = PENDING

====
